---- MODULE Spec2Model ----
(***************************************************************************)
(* A model of the Log Store of family-log (src/App.tsx, the App component  *)
(* that starts at line 932, and src/constants.ts).                         *)
(*                                                                         *)
(* JavaScript values are modelled as follows.                              *)
(*  - A plain object used as a map (AppData, DayRecord, fixedTasks,        *)
(*    config.members, config.tasks) is a function whose DOMAIN is the set  *)
(*    of its keys; a missing key is a key outside the DOMAIN.              *)
(*  - A fixedTasks entry is `TaskLog | boolean`: a tagged record whose     *)
(*    field `type` is what `typeof` answers.                               *)
(*  - An optional property (recordedTitle, themeColor, appTitle) holds the *)
(*    value Undefined when it is missing or set to undefined; JSON text    *)
(*    leaves such a property out (ToJSON) and reading it back yields       *)
(*    Undefined again (FromJSON).                                          *)
(*  - Strings that the UI shows in Chinese are written as ASCII glosses.   *)
(***************************************************************************)
EXTENDS Integers, Sequences, FiniteSets, TLC

VARIABLES
    currentDate,   \* useState<Date>: the selected day (its UTC day number)
    data,          \* useState<AppData>
    config,        \* useState<AppConfig>
    isLoaded,      \* useState<boolean>
    editingTask,   \* useState<{memberId,id,title,details} | null>
    importCode,    \* useState<string>: text of the import box
    importStatus,  \* useState<'idle'|'success'|'error'>
    localStorage,  \* the browser's key-value store
    clipboard,     \* the system clipboard (navigator.clipboard)
    resetTimers,   \* pending setTimeout callbacks of handleImport
    now,           \* Date.now(), in ticks
    addingCustomTask,   \* useState<string | null>: member whose field is open
    newCustomTaskText,  \* useState(''): text of the custom-task field
    isGenerating,       \* useState<boolean>(false)
    aiSummary,          \* useState<string | null>(null)
    showSummaryModal,   \* useState<boolean>(false)
    request,       \* the call of generateDailySummary that is awaited, or Null
    utcOffset,     \* the browser's timezone: local time minus UTC, in hours
    selectedTime,  \* the instant the Date in currentDate holds, in hours
    todayDate,     \* new Date() read with the local getters: year, month, day
    birthDateStr,  \* MemberConfig.birthDate of the member card that is shown
    longPressTimerRef,        \* useRef: the pending long-press timer, or Null
    touchStartPosRef,         \* useRef<{x, y} | null>
    isLongPressTriggeredRef,  \* useRef(false)
    isScrollingRef,           \* useRef(false)
    pointer,       \* the finger or mouse button: where it is in a press
    press,         \* history: what has happened in the current press
    exported,      \* history: what the last successful handleExport wrote
    last,          \* history: the handler that ran last, with what it saw
    pair           \* history: the current run of toggles of one task row

vars == <<currentDate, data, config, isLoaded, editingTask, importCode,
          importStatus, localStorage, clipboard, resetTimers, now, exported,
          addingCustomTask, newCustomTaskText, isGenerating, aiSummary,
          showSummaryModal, request, utcOffset, selectedTime, todayDate,
          birthDateStr, longPressTimerRef, touchStartPosRef,
          isLongPressTriggeredRef, isScrollingRef, pointer, press, last, pair>>

\* state that only the settings view touches
settings == <<importCode, importStatus, clipboard, resetTimers, now, exported>>

\* state of the custom-task field of the daily view
customField == <<addingCustomTask, newCustomTaskText>>

\* state of the summary generation
summaryState == <<isGenerating, aiSummary, showSummaryModal, request>>

\* the timezone and the instant of the selected Date
calendarState == <<utcOffset, selectedTime>>

\* state of the views that the daily log does not touch
\* what the subtitle of a member card is computed from
ageState == <<todayDate, birthDateStr>>

views == <<calendarState, ageState>>

\* the refs of the long-press logic, and the pointer they follow
gestureState == <<longPressTimerRef, touchStartPosRef, isLongPressTriggeredRef,
                  isScrollingRef, pointer, press>>

panels == <<customField, summaryState, views, gestureState>>

---------------------------------------------------------------------------
(* Bounds of the model *)

\* Number of calendar days the user can select (days 1..MaxDay).
MaxDay == 2

\* Date.now() takes the values 1..MaxClock.
MaxClock == 2

\* At most this many reset timers of handleImport are pending at a time.
MaxTimers == 1

---------------------------------------------------------------------------
(* Plain values *)

Undefined == "<undefined>"

Null == [kind |-> "null"]

STORAGE_KEY == "family_log_data_v3"
CONFIG_KEY == "family_log_config_v3"

\* `x ? a : b` / `x && y` on a string-or-undefined: "" and undefined are falsy
Truthy(s) == s # Undefined /\ s # ""

EmptyObject == [k \in {} |-> Undefined]

Has(obj, key) == key \in DOMAIN obj

\* {...obj, [key]: value}
Put(obj, key, value) ==
    [k \in DOMAIN obj \cup {key} |-> IF k = key THEN value ELSE obj[k]]

\* {...base, ...over}
Spread(base, over) ==
    [k \in DOMAIN base \cup DOMAIN over |->
        IF k \in DOMAIN over THEN over[k] ELSE base[k]]

\* delete copy[key]
Delete(obj, key) == [k \in DOMAIN obj \ {key} |-> obj[k]]

BoolEntry(b) == [type |-> "boolean", value |-> b]

TaskLog(c, d, r) ==
    [type |-> "object", completed |-> c, details |-> d, recordedTitle |-> r]

Task(i, t) == [id |-> i, title |-> t]

MemberConfig(i, n, c) == [id |-> i, name |-> n, visible |-> TRUE, themeColor |-> c]

DefaultAppTitle == "Life Blocks House"

INITIAL_CONFIG ==
    [ members |->
        [ child1 |-> MemberConfig("child1", "Orison", Undefined),
          child2 |-> MemberConfig("child2", "Alison", Undefined),
          child3 |-> MemberConfig("child3", "Bobie", Undefined),
          me     |-> MemberConfig("me", "Mama", Undefined) ],
      tasks |->
        [ child1 |-> << Task("piano", "practise piano"),
                        Task("english", "Zookeeper English"),
                        Task("news", "world news"),
                        Task("chinese", "Chinese reading") >>,
          child2 |-> << Task("magazine", "Mandarin weekly"),
                        Task("piano", "practise piano"),
                        Task("chinese_book", "Chinese book"),
                        Task("english_book", "English book") >>,
          child3 |-> << Task("bus", "bus puzzle"),
                        Task("draw", "drawing"),
                        Task("blocks", "blocks time") >>,
          me     |-> << Task("gym", "gym"),
                        Task("swim", "swimming"),
                        Task("read", "reading"),
                        Task("work", "work progress") >> ],
      appTitle |-> Undefined ]

\* Text of a custom task is a sequence of characters, so that trim() is
\* computed; NoText is the empty string ''.
NoText == << >>

INITIAL_DAILY_DATA == [fixedTasks |-> EmptyObject, customTasks |-> <<>>, mood |-> ""]

---------------------------------------------------------------------------
(* Dates *)

Days == 1 .. MaxDay

\* `new Date()`: the day the app runs on.
Today == 2

DayKeys == << "2024-05-01", "2024-05-02", "2024-05-03", "2024-05-04" >>

\* formatDate: the YYYY-MM-DD text of a day.
formatDate(date) == DayKeys[date]

\* date.toISOString().split('T')[0] reads the UTC day of the instant
toISODay(time) == time \div 24

\* the day of the instant on the local calendar (toLocaleDateString, getDate)
localDay(time, offset) == (time + offset) \div 24

\* new Date(year, month, day): midnight of that day on the local calendar
cellDate(day, offset) == 24 * day - offset

dateKey == formatDate(currentDate)

---------------------------------------------------------------------------
(* JSON text.  A text is [kind |-> "json", value |-> tree], or one of the  *)
(* texts below that hold no JSON.                                          *)

NoItem == Null                      \* localStorage.getItem of a missing key
EmptyText == [kind |-> "empty"]     \* ''
GarbageText == [kind |-> "garbage"] \* text that JSON.parse rejects

ToJSONEntry(e) ==
    IF e.type = "object" /\ e.recordedTitle = Undefined
    THEN [type |-> "object", completed |-> e.completed, details |-> e.details]
    ELSE e

FromJSONEntry(j) ==
    IF j.type = "object"
    THEN TaskLog(j.completed, j.details,
                 IF Has(j, "recordedTitle") THEN j.recordedTitle ELSE Undefined)
    ELSE j

ToJSONLog(d) ==
    [ fixedTasks |-> [t \in DOMAIN d.fixedTasks |-> ToJSONEntry(d.fixedTasks[t])],
      customTasks |-> d.customTasks,
      mood |-> d.mood ]

FromJSONLog(j) ==
    [ fixedTasks |-> [t \in DOMAIN j.fixedTasks |-> FromJSONEntry(j.fixedTasks[t])],
      customTasks |-> j.customTasks,
      mood |-> j.mood ]

ToJSONData(d) == [k \in DOMAIN d |-> [m \in DOMAIN d[k] |-> ToJSONLog(d[k][m])]]

FromJSONData(j) == [k \in DOMAIN j |-> [m \in DOMAIN j[k] |-> FromJSONLog(j[k][m])]]

ToJSONMember(mc) ==
    IF mc.themeColor = Undefined
    THEN [id |-> mc.id, name |-> mc.name, visible |-> mc.visible]
    ELSE mc

FromJSONMember(j) ==
    [ id |-> j.id, name |-> j.name, visible |-> j.visible,
      themeColor |-> IF Has(j, "themeColor") THEN j.themeColor ELSE Undefined ]

ToJSONConfig(c) ==
    LET members == [m \in DOMAIN c.members |-> ToJSONMember(c.members[m])]
    IN  IF c.appTitle = Undefined
        THEN [members |-> members, tasks |-> c.tasks]
        ELSE [members |-> members, tasks |-> c.tasks, appTitle |-> c.appTitle]

FromJSONConfig(j) ==
    [ members |-> [m \in DOMAIN j.members |-> FromJSONMember(j.members[m])],
      tasks |-> j.tasks,
      appTitle |-> IF Has(j, "appTitle") THEN j.appTitle ELSE Undefined ]

\* JSON.stringify(data), JSON.stringify(config), JSON.stringify({data, config})
stringifyData(d) == [kind |-> "json", value |-> ToJSONData(d)]

stringifyConfig(c) == [kind |-> "json", value |-> ToJSONConfig(c)]

stringifyExport(d, c) ==
    [kind |-> "json", value |-> [data |-> ToJSONData(d), config |-> ToJSONConfig(c)]]

\* JSON.parse throws on text that is no JSON
parseThrows(text) == text.kind # "json"

---------------------------------------------------------------------------
(* Reads *)

MemberDataOf(dat, key, memberId) ==
    IF Has(dat, key) /\ Has(dat[key], memberId)
    THEN dat[key][memberId]
    ELSE [INITIAL_DAILY_DATA EXCEPT !.fixedTasks = EmptyObject, !.customTasks = <<>>]

getMemberData(memberId) == MemberDataOf(data, dateKey, memberId)

\* TaskStateOf with a bare boolean read as no entry at all
TaskStateOfUnread(dat, key, memberId, taskId) ==
    LET fixedTasks == MemberDataOf(dat, key, memberId).fixedTasks
    IN  IF Has(fixedTasks, taskId) /\ fixedTasks[taskId].type = "object"
        THEN fixedTasks[taskId]
        ELSE TaskLog(FALSE, "", Undefined)

\* const state = getMemberData(memberId).fixedTasks[taskId]; typeof, ||
TaskStateOf(dat, key, memberId, taskId) ==
    LET fixedTasks == MemberDataOf(dat, key, memberId).fixedTasks
    IN  IF Has(fixedTasks, taskId)
        THEN LET raw == fixedTasks[taskId]
             IN  IF raw.type = "boolean"
                 THEN TaskLog(raw.value, "", Undefined)
                 ELSE raw
        ELSE TaskLog(FALSE, "", Undefined)

getTaskState(memberId, taskId) == TaskStateOf(data, dateKey, memberId, taskId)

getSortedMemberIds == DOMAIN config.members

\* config.tasks[memberId] || []
TaskDefsOf(cfg, memberId) ==
    IF Has(cfg.tasks, memberId) THEN cfg.tasks[memberId] ELSE <<>>

\* config.tasks[memberId]?.find(t => t.id === taskId)?.title
TitleOf(cfg, memberId, taskId) ==
    LET defs == TaskDefsOf(cfg, memberId)
        hits == {i \in 1 .. Len(defs) : defs[i].id = taskId}
    IN  IF hits = {}
        THEN Undefined
        ELSE defs[CHOOSE i \in hits : \A j \in hits : i <= j].title

\* displayTitle that shows a recorded title of unchecked tasks too
displayTitleSticky(cfg, dat, key, memberId, task) ==
    LET state == TaskStateOf(dat, key, memberId, task.id)
    IN  IF Truthy(state.recordedTitle) THEN state.recordedTitle ELSE task.title

\* renderDailyView: the title shown on a task row of the day `key`
displayTitle(cfg, dat, key, memberId, task) ==
    LET state == TaskStateOf(dat, key, memberId, task.id)
    IN  IF state.completed /\ Truthy(state.recordedTitle)
        THEN state.recordedTitle
        ELSE task.title

\* state === true || (typeof state === 'object' && state.completed)
IsDone(fixedTasks, taskId) ==
    /\ Has(fixedTasks, taskId)
    /\ \/ fixedTasks[taskId].type = "boolean" /\ fixedTasks[taskId].value
       \/ fixedTasks[taskId].type = "object" /\ fixedTasks[taskId].completed

\* MathRoundPercent that cuts the fraction off
MathFloorPercent(num, den) == (100 * num) \div den

\* Math.round((num / den) * 100) for 0 <= num <= den, den > 0
MathRoundPercent(num, den) == (200 * num + den) \div (2 * den)

DoneCount(defs, fixedTasks) ==
    Cardinality({i \in 1 .. Len(defs) : IsDone(fixedTasks, defs[i].id)})

getMemberProgress(memberId, dateStr) ==
    LET mDefs == TaskDefsOf(config, memberId)
        mData == MemberDataOf(data, dateStr, memberId)
    IN  IF Len(mDefs) = 0
        THEN 0
        ELSE MathRoundPercent(DoneCount(mDefs, mData.fixedTasks), Len(mDefs))

RECURSIVE SumOver(_, _)
SumOver(f, S) ==
    IF S = {}
    THEN 0
    ELSE LET x == CHOOSE y \in S : TRUE IN f[x] + SumOver(f, S \ {x})

\* familyProgress over every task list of the configuration
familyProgressOfLists ==
    LET ids == DOMAIN config.tasks
        total == [mid \in ids |-> Len(TaskDefsOf(config, mid))]
        done == [mid \in ids |->
                    DoneCount(TaskDefsOf(config, mid), getMemberData(mid).fixedTasks)]
        totalTasks == SumOver(total, ids)
        completedTasks == SumOver(done, ids)
    IN  IF totalTasks = 0 THEN 0 ELSE MathRoundPercent(completedTasks, totalTasks)

familyProgress ==
    LET ids == getSortedMemberIds
        total == [mid \in ids |-> Len(TaskDefsOf(config, mid))]
        done == [mid \in ids |->
                    DoneCount(TaskDefsOf(config, mid), getMemberData(mid).fixedTasks)]
        totalTasks == SumOver(total, ids)
        completedTasks == SumOver(done, ids)
    IN  IF totalTasks = 0 THEN 0 ELSE MathRoundPercent(completedTasks, totalTasks)

---------------------------------------------------------------------------
(* Persistence effects: they run after every render in which their         *)
(* dependency changed, so each handler that sets data or config is         *)
(* followed by them.                                                       *)

\* the data effect without its test of Object.keys(data).length
persistDataUnguarded(store, d) ==
    [store EXCEPT ![STORAGE_KEY] = stringifyData(d)]

persistData(store, d) ==
    IF DOMAIN d # {}
    THEN [store EXCEPT ![STORAGE_KEY] = stringifyData(d)]
    ELSE store

persistConfig(store, c) == [store EXCEPT ![CONFIG_KEY] = stringifyConfig(c)]

---------------------------------------------------------------------------
(* History variables *)

NoOp == [op |-> "none"]

NoPair == [n |-> 0]

NoExport == [text |-> EmptyText]

\* what typeof says of the stored entry of a task (or that there is none)
RawKind(memberId, taskId) ==
    LET fixedTasks == getMemberData(memberId).fixedTasks
    IN  IF Has(fixedTasks, taskId) THEN fixedTasks[taskId].type ELSE "undefined"

OpRecord(op, memberId, taskId) ==
    [ op |-> op, memberId |-> memberId, taskId |-> taskId, key |-> dateKey,
      before |-> getTaskState(memberId, taskId),
      raw |-> RawKind(memberId, taskId),
      title |-> TitleOf(config, memberId, taskId) ]

---------------------------------------------------------------------------
(* Inputs of the model *)

\* The task rows the user touches: <<memberId, index in the member's list>>
TouchedRows == { <<"me", 1>> }

\* What the user types into the title and the details box of the editor
TypedTitles == { "", "renamed" }

TypedDetails == { "", "note" }

---------------------------------------------------------------------------
(* Writes *)

\* updateMemberData that replaces the record of the day by the record of
\* the member
updateMemberDataReplacing(memberId, updates) ==
    Put(data, dateKey,
        Put(EmptyObject, memberId, Spread(getMemberData(memberId), updates)))

\* setData(prev => ({ ...prev, [dateKey]: { ...prev[dateKey], [memberId]:
\* { ...getMemberData(memberId), ...updates } } }))
updateMemberData(memberId, updates) ==
    Put(data, dateKey,
        Put(IF Has(data, dateKey) THEN data[dateKey] ELSE EmptyObject,
            memberId,
            Spread(getMemberData(memberId), updates)))

\* toggledLog with the title forgotten when a task is unchecked
toggledLogClearing(currentState, title) ==
    TaskLog(~currentState.completed,
            currentState.details,
            IF ~currentState.completed THEN title ELSE Undefined)

\* toggledLog with the title stamped on every toggle
toggledLogStamping(currentState, title) ==
    TaskLog(~currentState.completed, currentState.details, title)

\* toggleFixedTask that stores the flipped flag alone
toggledLogBare(currentState, title) == BoolEntry(~currentState.completed)

\* the entry toggleFixedTask stores, from the state it read and the live title
toggledLog(currentState, title) ==
    TaskLog(~currentState.completed,
            currentState.details,
            IF ~currentState.completed THEN title ELSE currentState.recordedTitle)

\* handleClick of a task row (no long press, no scroll): toggleFixedTask
toggleFixedTask(memberId, taskId) ==
    /\ isLoaded
    /\ data' = updateMemberData(memberId,
                  [fixedTasks |->
                      Put(getMemberData(memberId).fixedTasks, taskId,
                          toggledLog(getTaskState(memberId, taskId),
                                     TitleOf(config, memberId, taskId)))])
    /\ localStorage' = persistData(localStorage, data')
    /\ last' = OpRecord("toggleFixedTask", memberId, taskId)
    /\ pair' = IF /\ pair.n = 1
                  /\ pair.memberId = memberId
                  /\ pair.taskId = taskId
                  /\ pair.key = dateKey
               THEN [pair EXCEPT !.n = 2]
               ELSE [ n |-> 1, memberId |-> memberId, taskId |-> taskId,
                      key |-> dateKey,
                      first |-> getTaskState(memberId, taskId),
                      title |-> TitleOf(config, memberId, taskId) ]
    /\ UNCHANGED <<customField, summaryState, views, currentDate, config,
                   isLoaded, editingTask, settings>>

\* the long-press timer of handleTouchStart fires: the editor opens
openEditor(memberId, taskId) ==
    /\ isLoaded
    /\ editingTask = Null
    /\ editingTask' =
         [ memberId |-> memberId, id |-> taskId,
           title |-> LET t == TitleOf(config, memberId, taskId)
                     IN  IF Truthy(t) THEN t ELSE "",
           details |-> getTaskState(memberId, taskId).details ]
    /\ last' = NoOp
    /\ pair' = NoPair
    /\ UNCHANGED <<customField, summaryState, views, currentDate, data, config,
                   isLoaded, localStorage, settings>>

\* onChange of the two inputs of the editor
typeTitle(title) ==
    /\ editingTask # Null
    /\ editingTask.title # title
    /\ editingTask' = [editingTask EXCEPT !.title = title]
    /\ UNCHANGED <<panels, currentDate, data, config, isLoaded, localStorage,
                   settings, last, pair>>

typeDetails(details) ==
    /\ editingTask # Null
    /\ editingTask.details # details
    /\ editingTask' = [editingTask EXCEPT !.details = details]
    /\ UNCHANGED <<panels, currentDate, data, config, isLoaded, localStorage,
                   settings, last, pair>>

\* the X button of the editor
closeEditor ==
    /\ editingTask # Null
    /\ editingTask' = Null
    /\ UNCHANGED <<panels, currentDate, data, config, isLoaded, localStorage,
                   settings, last, pair>>

\* prev.tasks[memberId].map(t => t.id === id ? { ...t, title } : t)
renamedDefs(defs, id, title) ==
    [i \in 1 .. Len(defs) |->
        IF defs[i].id = id THEN [defs[i] EXCEPT !.title = title] ELSE defs[i]]

\* editedLog that starts from a fresh log instead of the current one
editedLogFresh(currentState, title, details) == TaskLog(FALSE, details, title)

\* the entry saveTaskEdit stores
editedLog(currentState, title, details) ==
    [currentState EXCEPT !.details = details, !.recordedTitle = title]

saveTaskEdit ==
    /\ editingTask # Null
    /\ Has(config.tasks, editingTask.memberId)
    /\ LET memberId == editingTask.memberId
           id == editingTask.id
           title == editingTask.title
           details == editingTask.details
       IN  /\ config' =
                [config EXCEPT !.tasks =
                    Put(config.tasks, memberId,
                        renamedDefs(config.tasks[memberId], id, title))]
           /\ data' = updateMemberData(memberId,
                         [fixedTasks |->
                             Put(getMemberData(memberId).fixedTasks, id,
                                 editedLog(getTaskState(memberId, id),
                                           title, details))])
           /\ last' = OpRecord("saveTaskEdit", memberId, id)
    /\ editingTask' = Null
    /\ localStorage' = persistConfig(persistData(localStorage, data'), config')
    /\ pair' = NoPair
    /\ UNCHANGED <<panels, currentDate, isLoaded, settings>>

\* the labels of the day cells of the calendar view
Cells == 1 .. MaxDay + 1

\* selectDate that stores an empty day record for the day it opens
selectDateMaterialising(d) ==
    /\ isLoaded
    /\ editingTask = Null
    /\ d # currentDate
    /\ currentDate' = d
    /\ \E day \in Cells :
         /\ toISODay(cellDate(day, utcOffset)) = d
         /\ selectedTime' = cellDate(day, utcOffset)
         /\ last' = [op |-> "selectDate", cell |-> day]
    /\ data' = IF Has(data, formatDate(d)) THEN data
               ELSE Put(data, formatDate(d), EmptyObject)
    /\ localStorage' = persistData(localStorage, data')
    /\ pair' = NoPair
    /\ UNCHANGED <<customField, summaryState, utcOffset, ageState,
                   gestureState, config, isLoaded, editingTask, settings>>

\* a day cell of the calendar view: setCurrentDate(d); setCurrentView('daily').
\* The cell labelled `day` holds the Date of that day's local midnight; d is
\* the UTC day of that instant.
selectDate(d) ==
    /\ isLoaded
    /\ editingTask = Null
    /\ d # currentDate
    /\ currentDate' = d
    /\ \E day \in Cells :
         /\ toISODay(cellDate(day, utcOffset)) = d
         /\ selectedTime' = cellDate(day, utcOffset)
         /\ last' = [op |-> "selectDate", cell |-> day]
    /\ pair' = NoPair
    /\ UNCHANGED <<customField, summaryState, utcOffset, ageState,
                   gestureState, data, config, isLoaded, editingTask,
                   localStorage, settings>>

handleDateChange(days) ==
    /\ isLoaded
    /\ editingTask = Null
    /\ currentDate + days \in Days
    /\ currentDate' = currentDate + days
    /\ selectedTime' = selectedTime + 24 * days
    /\ aiSummary' = Null
    /\ last' = [op |-> "handleDateChange"]
    /\ pair' = NoPair
    /\ UNCHANGED <<customField, isGenerating, showSummaryModal, request,
                   utcOffset, ageState, gestureState, data, config, isLoaded,
                   editingTask, localStorage, settings>>

---------------------------------------------------------------------------
(* Start-up: the mount effect, and the persistence effects after it *)

\* if (saved) { try { JSON.parse(saved) ... } catch {} } takes the value
Usable(text) == text # NoItem /\ text # EmptyText /\ ~parseThrows(text)

mergeConfig(prev, parsed) ==
    [ members |-> Spread(prev.members, parsed.members),
      tasks |-> Spread(prev.tasks, parsed.tasks),
      appTitle |-> IF Truthy(parsed.appTitle) THEN parsed.appTitle
                   ELSE IF Truthy(prev.appTitle) THEN prev.appTitle
                   ELSE DefaultAppTitle ]

\* the mount effect without its try/catch: a JSON.parse that throws ends the
\* effect before setIsLoaded(true)
loadUncaught ==
    /\ ~isLoaded
    /\ LET savedData == localStorage[STORAGE_KEY]
           savedConfig == localStorage[CONFIG_KEY]
           dataThrows == savedData = GarbageText
           configThrows == savedConfig = GarbageText
       IN  /\ data' = IF Usable(savedData)
                      THEN FromJSONData(savedData.value)
                      ELSE data
           /\ config' = IF Usable(savedConfig) /\ ~dataThrows
                        THEN mergeConfig(config, FromJSONConfig(savedConfig.value))
                        ELSE config
           /\ isLoaded' = (~dataThrows /\ ~configThrows)
    /\ localStorage' = IF isLoaded'
                       THEN persistConfig(persistData(localStorage, data'), config')
                       ELSE localStorage
    /\ last' = [op |-> "load"]
    /\ UNCHANGED <<panels, currentDate, editingTask, settings, pair>>

load ==
    /\ ~isLoaded
    /\ LET savedData == localStorage[STORAGE_KEY]
           savedConfig == localStorage[CONFIG_KEY]
       IN  /\ data' = IF Usable(savedData)
                      THEN FromJSONData(savedData.value)
                      ELSE data
           /\ config' = IF Usable(savedConfig)
                        THEN mergeConfig(config, FromJSONConfig(savedConfig.value))
                        ELSE config
    /\ isLoaded' = TRUE
    /\ localStorage' = persistConfig(persistData(localStorage, data'), config')
    /\ last' = [op |-> "load"]
    /\ UNCHANGED <<panels, currentDate, editingTask, settings, pair>>

---------------------------------------------------------------------------
(* What earlier sessions may have left in local storage *)

LogOf(fixedTasks) == [fixedTasks |-> fixedTasks, customTasks |-> <<>>, mood |-> ""]

\* written by a version that stored bare booleans
LegacyData ==
    [k \in {formatDate(1)} |->
        [ child3 |-> LogOf([bus |-> BoolEntry(TRUE)]),
          me |-> LogOf([gym |-> BoolEntry(FALSE)]) ]]

\* written by the version whose logs had no recordedTitle (lines 149-160, 217-243)
OlderData ==
    [k \in {formatDate(1)} |->
        [ child3 |-> LogOf([bus |-> TaskLog(TRUE, "note", Undefined)]),
          me |-> LogOf([gym |-> BoolEntry(TRUE)]) ]]

StoredConfig == [INITIAL_CONFIG EXCEPT !.appTitle = DefaultAppTitle]

Stores ==
    { [k \in {STORAGE_KEY, CONFIG_KEY} |-> NoItem],
      (STORAGE_KEY :> stringifyData(LegacyData)) @@ (CONFIG_KEY :> NoItem),
      (STORAGE_KEY :> stringifyData(OlderData))
          @@ (CONFIG_KEY :> stringifyConfig(StoredConfig)) }

---------------------------------------------------------------------------
(* The daily log: start-up, the calendar, the task rows and the editor *)

\* no finger or mouse button is down
PointerUp == [phase |-> "up"]

\* no press has begun
NoPress == [n |-> 0]

\* the state after construction in a browser whose timezone is `offset`, at
\* `hour` o'clock UTC of the day the app runs on
Mounted(offset, hour) ==
    /\ utcOffset = offset
    /\ selectedTime = 24 * Today + hour
    /\ longPressTimerRef = Null
    /\ touchStartPosRef = Null
    /\ isLongPressTriggeredRef = FALSE
    /\ isScrollingRef = FALSE
    /\ pointer = PointerUp
    /\ press = NoPress
    /\ currentDate = Today
    /\ data = EmptyObject
    /\ config = INITIAL_CONFIG
    /\ isLoaded = FALSE
    /\ editingTask = Null
    /\ importCode = EmptyText
    /\ importStatus = "idle"
    /\ clipboard = EmptyText
    /\ resetTimers = 0
    /\ now = 1
    /\ exported = NoExport
    /\ addingCustomTask = Null
    /\ newCustomTaskText = NoText
    /\ isGenerating = FALSE
    /\ aiSummary = Null
    /\ showSummaryModal = FALSE
    /\ request = Null
    /\ last = NoOp
    /\ pair = NoPair

\* a calendar date as the local getters of a Date give it (month 1 .. 12)
DateOf(year, month, day) == [year |-> year, month |-> month, day |-> day]

\* a member without birthDate
NoBirthDate == [kind |-> "undefined"]

\* the app is opened on the local date `date`; the member shown has no
\* birth date yet
OpenedOn(date) ==
    /\ todayDate = date
    /\ birthDateStr = NoBirthDate

\* construction at midnight of 2024-05-02 in a browser on UTC
Constructed == Mounted(0, 0) /\ OpenedOn(DateOf(2024, 5, 2))

Init ==
    /\ Constructed
    /\ localStorage \in Stores

\* the rows renderDailyView shows: the task definitions of the roster
Rendered(row) ==
    /\ row[1] \in getSortedMemberIds
    /\ row[2] \in 1 .. Len(TaskDefsOf(config, row[1]))

RowTask(row) == config.tasks[row[1]][row[2]].id

tapRow ==
    \E row \in TouchedRows :
        /\ Rendered(row)
        /\ editingTask = Null
        /\ toggleFixedTask(row[1], RowTask(row))
        /\ UNCHANGED gestureState

longPressRow ==
    \E row \in TouchedRows :
        /\ Rendered(row)
        /\ openEditor(row[1], RowTask(row))
        /\ UNCHANGED gestureState

typeIntoEditor == \E title \in TypedTitles : typeTitle(title)

pickDate ==
    \/ \E d \in Days : selectDate(d)
    \/ \E days \in {-1, 1} : handleDateChange(days)

Next ==
    \/ load
    \/ tapRow
    \/ longPressRow
    \/ typeIntoEditor
    \/ closeEditor
    \/ saveTaskEdit
    \/ pickDate

Spec == Init /\ [][Next]_vars

---------------------------------------------------------------------------
(* The settings view: the roster *)

\* `member_${Date.now()}`
NewMemberId(t) == << "member_1", "member_2", "member_3" >>[t]

StarterTasks ==
    << Task("task1", "daily habit 1"),
       Task("task2", "daily habit 2"),
       Task("task3", "reading") >>

addNewMember ==
    /\ isLoaded
    /\ editingTask = Null
    /\ LET newId == NewMemberId(now)
           newMember == MemberConfig(newId, "new member", "#6b7280")
       IN  config' = [config EXCEPT
                         !.members = Put(config.members, newId, newMember),
                         !.tasks = Put(config.tasks, newId, StarterTasks)]
    /\ localStorage' = persistConfig(localStorage, config')
    /\ last' = [op |-> "addNewMember"]
    /\ pair' = NoPair
    /\ UNCHANGED <<panels, currentDate, data, isLoaded, editingTask, settings>>

\* time passes between two events
tick ==
    /\ now < MaxClock
    /\ now' = now + 1
    /\ UNCHANGED <<panels, currentDate, data, config, isLoaded, editingTask,
                   localStorage, importCode, importStatus, clipboard,
                   resetTimers, exported, last, pair>>

\* deleteMember that also drops the member's task definitions
deleteMemberCascading(id) ==
    /\ isLoaded
    /\ editingTask = Null
    /\ Has(config.members, id)
    /\ \E confirmed \in BOOLEAN :
         /\ config' = IF confirmed
                      THEN [config EXCEPT !.members = Delete(config.members, id),
                                          !.tasks = Delete(config.tasks, id)]
                      ELSE config
         /\ localStorage' = IF confirmed
                            THEN persistConfig(localStorage, config')
                            ELSE localStorage
         /\ last' = [op |-> "deleteMember", id |-> id, confirmed |-> confirmed]
    /\ pair' = NoPair
    /\ UNCHANGED <<panels, currentDate, data, isLoaded, editingTask, settings>>

\* the trash button of a member; window.confirm answers `confirmed`
deleteMember(id) ==
    /\ isLoaded
    /\ editingTask = Null
    /\ Has(config.members, id)
    /\ \E confirmed \in BOOLEAN :
         /\ config' = IF confirmed
                      THEN [config EXCEPT !.members = Delete(config.members, id)]
                      ELSE config
         /\ localStorage' = IF confirmed
                            THEN persistConfig(localStorage, config')
                            ELSE localStorage
         /\ last' = [op |-> "deleteMember", id |-> id, confirmed |-> confirmed]
    /\ pair' = NoPair
    /\ UNCHANGED <<panels, currentDate, data, isLoaded, editingTask, settings>>

---------------------------------------------------------------------------
(* The settings view: backup and sync *)

\* navigator.clipboard.writeText resolves (granted) or rejects
handleExport ==
    /\ isLoaded
    /\ editingTask = Null
    /\ LET str == stringifyExport(data, config)
       IN  \E granted \in BOOLEAN :
             /\ clipboard' = IF granted THEN str ELSE clipboard
             /\ exported' = IF granted
                            THEN [text |-> str, data |-> data, config |-> config]
                            ELSE exported
    /\ last' = [op |-> "handleExport"]
    /\ pair' = NoPair
    /\ UNCHANGED <<panels, currentDate, data, config, isLoaded, editingTask,
                   localStorage, importCode, importStatus, resetTimers, now>>

\* onChange of the import box
setImportCode(text) ==
    /\ isLoaded
    /\ editingTask = Null
    /\ importCode # text
    /\ importCode' = text
    /\ last' = [op |-> "setImportCode"]
    /\ pair' = NoPair
    /\ UNCHANGED <<panels, currentDate, data, config, isLoaded, editingTask,
                   localStorage, importStatus, clipboard, resetTimers, now,
                   exported>>

\* JSON.parse succeeds and parsed.data && parsed.config is truthy
importable(text) ==
    /\ ~parseThrows(text)
    /\ Has(text.value, "data")
    /\ Has(text.value, "config")

\* handleImport that merges what it reads into what is there
handleImportMerging ==
    /\ isLoaded
    /\ editingTask = Null
    /\ importCode # EmptyText
    /\ IF importable(importCode)
       THEN /\ resetTimers < MaxTimers
            /\ data' = Spread(data, FromJSONData(importCode.value.data))
            /\ config' = mergeConfig(config,
                                     FromJSONConfig(importCode.value.config))
            /\ importStatus' = "success"
            /\ resetTimers' = resetTimers + 1
            /\ localStorage' =
                 persistConfig(persistData(localStorage, data'), config')
       ELSE /\ importStatus' = "error"
            /\ UNCHANGED <<data, config, resetTimers, localStorage>>
    /\ last' = [ op |-> "handleImport", code |-> importCode,
                 replaced |-> <<data' # data, config' # config>> ]
    /\ pair' = NoPair
    /\ UNCHANGED <<panels, currentDate, isLoaded, editingTask, importCode, clipboard,
                   now, exported>>

\* handleImport that applies the one of the two fields that is there
handleImportPartial ==
    /\ isLoaded
    /\ editingTask = Null
    /\ importCode # EmptyText
    /\ IF importable(importCode)
       THEN /\ resetTimers < MaxTimers
            /\ data' = FromJSONData(importCode.value.data)
            /\ config' = FromJSONConfig(importCode.value.config)
            /\ importStatus' = "success"
            /\ resetTimers' = resetTimers + 1
       ELSE /\ importStatus' = "error"
            /\ data' = IF ~parseThrows(importCode) /\ Has(importCode.value, "data")
                       THEN FromJSONData(importCode.value.data)
                       ELSE data
            /\ config' = IF ~parseThrows(importCode) /\ Has(importCode.value, "config")
                         THEN FromJSONConfig(importCode.value.config)
                         ELSE config
            /\ UNCHANGED resetTimers
    /\ localStorage' = persistConfig(persistData(localStorage, data'), config')
    /\ last' = [ op |-> "handleImport", code |-> importCode,
                 replaced |-> <<data' # data, config' # config>> ]
    /\ pair' = NoPair
    /\ UNCHANGED <<panels, currentDate, isLoaded, editingTask, importCode, clipboard,
                   now, exported>>

\* the import button (disabled while the box is empty)
handleImport ==
    /\ isLoaded
    /\ editingTask = Null
    /\ importCode # EmptyText
    /\ IF importable(importCode)
       THEN /\ resetTimers < MaxTimers
            /\ data' = FromJSONData(importCode.value.data)
            /\ config' = FromJSONConfig(importCode.value.config)
            /\ importStatus' = "success"
            /\ resetTimers' = resetTimers + 1
            /\ localStorage' =
                 persistConfig(persistData(localStorage, data'), config')
       ELSE /\ importStatus' = "error"
            /\ UNCHANGED <<data, config, resetTimers, localStorage>>
    /\ last' = [ op |-> "handleImport", code |-> importCode,
                 replaced |-> <<data' # data, config' # config>> ]
    /\ pair' = NoPair
    /\ UNCHANGED <<panels, currentDate, isLoaded, editingTask, importCode, clipboard,
                   now, exported>>

\* setTimeout(() => setImportStatus('idle'), 2000) of a successful import
resetImportStatus ==
    /\ resetTimers > 0
    /\ resetTimers' = resetTimers - 1
    /\ importStatus' = "idle"
    /\ UNCHANGED <<panels, currentDate, data, config, isLoaded, editingTask,
                   localStorage, importCode, clipboard, now, exported,
                   last, pair>>

---------------------------------------------------------------------------
(* Progress of the family: task rows of several members, the roster, and   *)
(* an import of a configuration written by hand                            *)

\* a backup edited by hand: a member was added to the roster without a task
\* list
GuestConfig ==
    [ INITIAL_CONFIG EXCEPT
        !.members = Put(INITIAL_CONFIG.members, "guest",
                        MemberConfig("guest", "Guest", Undefined)) ]

GuestBlob == stringifyExport(LegacyData, GuestConfig)

\* the backup of a household without members
BareBlob ==
    stringifyExport(EmptyObject,
                    [members |-> EmptyObject, tasks |-> EmptyObject,
                     appTitle |-> Undefined])

TypedBlobs == { GuestBlob, BareBlob }

ProgressRows == { <<"me", 1>>, <<"child3", 1>>, <<"child3", 2>> }

RemovedMembers == { "child1", "child3" }

tapProgressRow ==
    \E row \in ProgressRows :
        /\ Rendered(row)
        /\ editingTask = Null
        /\ toggleFixedTask(row[1], RowTask(row))
        /\ UNCHANGED gestureState

removeMember == \E id \in RemovedMembers : deleteMember(id)

typeBlob == \E text \in TypedBlobs : setImportCode(text)

NextProgress ==
    \/ load
    \/ tapProgressRow
    \/ removeMember
    \/ typeBlob
    \/ handleImport
    \/ resetImportStatus

SpecProgress == Init /\ [][NextProgress]_vars

---------------------------------------------------------------------------
(* Backup and sync: the household exports, goes on, and imports what is in *)
(* the clipboard or what was typed                                         *)

\* JSON text without the `config` field
HalfBlob == [kind |-> "json", value |-> [data |-> ToJSONData(EmptyObject)]]

\* JSON text without the `data` field
ConfigOnlyBlob ==
    [kind |-> "json", value |-> [config |-> ToJSONConfig(INITIAL_CONFIG)]]

TypedCodes == { GarbageText, HalfBlob, ConfigOnlyBlob }

typeCode == \E text \in TypedCodes : setImportCode(text)

pasteClipboard ==
    /\ clipboard # EmptyText
    /\ setImportCode(clipboard)

NextSync ==
    \/ load
    \/ tapRow
    \/ removeMember
    \/ handleExport
    \/ pasteClipboard
    \/ typeCode
    \/ handleImport
    \/ resetImportStatus

SpecSync == Init /\ [][NextSync]_vars

---------------------------------------------------------------------------
(* The editor used for the details of a task of the selected day *)

typeDetailsIntoEditor == \E details \in TypedDetails : typeDetails(details)

NextEditor ==
    \/ load
    \/ tapRow
    \/ longPressRow
    \/ typeDetailsIntoEditor
    \/ closeEditor
    \/ saveTaskEdit
    \/ pickDate

SpecEditor == Init /\ [][NextEditor]_vars

---------------------------------------------------------------------------
(* The roster over time: members are added, at the same or at a later tick *)
(* of the clock, and removed                                               *)

removeAnyMember == \E id \in DOMAIN config.members : deleteMember(id)

NextRoster ==
    \/ load
    \/ addNewMember
    \/ tick
    \/ removeAnyMember

SpecRoster == Init /\ [][NextRoster]_vars

---------------------------------------------------------------------------
(* Properties of the daily log (checked under Spec) *)

\* the log of the task row that the history variable h names, as read now
LogNow(h) == TaskStateOf(data, h.key, h.memberId, h.taskId)

\* C1: two toggles of one task row in succession restore `completed`; if the
\* task was incomplete before them, recordedTitle is afterwards the title the
\* definition had at the first toggle (it does not go back to what it was).
C1_TwoToggles ==
    pair.n = 2 =>
        /\ LogNow(pair).completed = pair.first.completed
        /\ ~pair.first.completed => LogNow(pair).recordedTitle = pair.title

\* two toggles have run on a task that was incomplete and carried another title
C1_Witness ==
    /\ pair.n = 2
    /\ ~pair.first.completed
    /\ Truthy(pair.first.recordedTitle)
    /\ pair.first.recordedTitle # pair.title
    /\ LogNow(pair).recordedTitle = pair.title

LoggedMembers == { "me", "child3" }

\* their rows in the daily view, as <<memberId, task definition>>
Rows(cfg) ==
    UNION { { <<m, TaskDefsOf(cfg, m)[i]>> : i \in 1 .. Len(TaskDefsOf(cfg, m)) } :
            m \in DOMAIN cfg.members \cap LoggedMembers }

\* the days before the day the app runs on
HistoricalDays == { d \in Days : d < Today }

\* C3: saving a rename stamps recordedTitle on today's log only; the logs of
\* every day before today keep their recordedTitle, whichever day is selected
\* in the view when the rename is saved.
C3_OnlyTodayStamped ==
    [][ saveTaskEdit =>
          \A d \in HistoricalDays : \A row \in Rows(config) :
              TaskStateOf(data', formatDate(d), row[1], row[2].id).recordedTitle
                = TaskStateOf(data, formatDate(d), row[1], row[2].id).recordedTitle
      ]_vars

\* C4: after a rename, a day without a recorded title shows the new title; a
\* day other than today that was completed with a recorded title shows what
\* it showed before the rename; today shows the new title.
C4_RenameDisplay ==
    [][ saveTaskEdit =>
          LET m == editingTask.memberId
              old == Task(editingTask.id, TitleOf(config, m, editingTask.id))
              new == Task(editingTask.id, editingTask.title)
          IN  \A d \in Days :
                LET key == formatDate(d)
                    before == TaskStateOf(data, key, m, old.id)
                    after == TaskStateOf(data', key, m, new.id)
                    shown == displayTitle(config', data', key, m, new)
                IN  /\ after.recordedTitle = Undefined => shown = new.title
                    /\ d = Today => shown = new.title
                    /\ d # Today /\ before.completed
                                 /\ before.recordedTitle # Undefined
                         => shown = displayTitle(config, data, key, m, old)
      ]_vars

ReadMembers == LoggedMembers \cup {"member_0"}

ReadTaskIds == {"gym", "bus", "task_0"}

\* C6: getTaskState returns a structured log for every stored shape: a bare
\* boolean b reads as {completed: b, details: ""} without recordedTitle, a
\* structured entry reads as stored, and a missing entry (or a missing member
\* or day record) reads as {completed: false, details: ""}.
C6_Normalised ==
    \A d \in Days : \A m \in ReadMembers : \A t \in ReadTaskIds :
        LET key == formatDate(d)
            stored == /\ Has(data, key)
                      /\ Has(data[key], m)
                      /\ Has(data[key][m].fixedTasks, t)
            state == TaskStateOf(data, key, m, t)
        IN  IF ~stored
            THEN state = TaskLog(FALSE, "", Undefined)
            ELSE LET raw == data[key][m].fixedTasks[t]
                 IN  IF raw.type = "boolean"
                     THEN /\ state.type = "object"
                          /\ state.completed = raw.value
                          /\ state.details = ""
                          /\ state.recordedTitle = Undefined
                     ELSE state = raw

\* a toggle read a bare boolean `true`, while another entry of that day is
\* structured and a third is missing
C6_Witness ==
    /\ last.op = "toggleFixedTask"
    /\ last.raw = "boolean"
    /\ last.before = TaskLog(TRUE, "", Undefined)
    /\ TaskStateOf(data, last.key, "child3", "bus") = TaskLog(TRUE, "note", Undefined)
    /\ ~Has(data[last.key], "child1")

\* C9: selecting or navigating to a day, and the reads made to show it, leave
\* the stored state alone: no day key and no member entry is added to the
\* data, in memory or in local storage, and a day without activity stays
\* absent (its reads are the defaults).
C9_ReadsDoNotWrite ==
    [][ currentDate' # currentDate =>
          /\ data' = data
          /\ config' = config
          /\ localStorage' = localStorage
          /\ ~Has(data, formatDate(currentDate')) =>
               /\ ~Has(data', formatDate(currentDate'))
               /\ \A m \in ReadMembers :
                     /\ MemberDataOf(data', formatDate(currentDate'), m)
                          = INITIAL_DAILY_DATA
                     /\ getMemberProgress(m, formatDate(currentDate')) = 0
      ]_vars

\* a day without any record is on screen after a selection, and has no key
C9_Witness ==
    /\ last.op \in {"selectDate", "handleDateChange"}
    /\ ~Has(data, dateKey)
    /\ DOMAIN data # {}
    /\ localStorage[STORAGE_KEY] = stringifyData(data)

---------------------------------------------------------------------------
(* Properties of the progress figures (checked under SpecProgress) *)

\* r is 100 * c / t rounded to the nearest integer, halves upwards
IsRoundedPercent(r, c, t) ==
    /\ r \in 0 .. 100
    /\ 2 * r * t - t <= 200 * c
    /\ 200 * c < 2 * r * t + t

\* the definitions <<memberId, index>> of the members `ids`
DefsOf(ids) ==
    UNION { { <<m, i>> : i \in 1 .. Len(TaskDefsOf(config, m)) } : m \in ids }

\* those of them whose log of the day `key` is completed
CompletedOf(ids, key) ==
    { p \in DefsOf(ids) :
        TaskStateOf(data, key, p[1], TaskDefsOf(config, p[1])[p[2]].id).completed }

\* every member id of the roster, of the task lists and of the data, and one
\* that is in none of them
KnownMembers ==
    DOMAIN config.members \cup DOMAIN config.tasks \cup ReadMembers

---------------------------------------------------------------------------
(* Properties of backup and sync (checked under SpecSync) *)

\* C10: importing the text that handleExport produced reproduces exactly the
\* data and the configuration that were exported: both are replaced as a
\* whole, and nothing of the state before the import remains.
C10_RoundTrip ==
    ( /\ last.op = "handleImport"
      /\ exported # NoExport
      /\ last.code = exported.text )
    => /\ data = exported.data
       /\ config = exported.config

\* an export with a legacy boolean and with a log without recordedTitle was
\* imported over data and a roster that both had changed since
C10_Witness ==
    /\ last.op = "handleImport"
    /\ exported # NoExport
    /\ last.code = exported.text
    /\ last.replaced = <<TRUE, TRUE>>
    /\ Has(exported.data, formatDate(1))
    /\ exported.data[formatDate(1)]["me"].fixedTasks["gym"] = BoolEntry(TRUE)
    /\ exported.data[formatDate(1)]["child3"].fixedTasks["bus"]
         = TaskLog(TRUE, "note", Undefined)
    /\ data = exported.data

\* C11: an import of text that is no JSON, or that lacks the `data` or the
\* `config` field, sets the import status to error and leaves both the data
\* and the configuration in memory as they were (never one of the two alone).
C11_FailedImport ==
    [][ handleImport /\ ~importable(importCode) =>
          /\ importStatus' = "error"
          /\ data' = data
          /\ config' = config
      ]_vars

\* an import of text with `data` but without `config` has failed, while data
\* were there and a reset timer of an earlier success was pending
C11_Witness ==
    /\ last.op = "handleImport"
    /\ last.code = HalfBlob
    /\ last.replaced = <<FALSE, FALSE>>
    /\ importStatus = "error"
    /\ resetTimers > 0
    /\ DOMAIN data # {}

\* what the next start-up would read from local storage as the data
ReadBackData(store) ==
    IF Usable(store[STORAGE_KEY])
    THEN FromJSONData(store[STORAGE_KEY].value)
    ELSE EmptyObject

\* C12: once loaded, after every state change the stored configuration is the
\* text of the configuration in memory, and the stored data read back are the
\* data in memory (after a successful import too).
C12_PersistedAfterWrite ==
    isLoaded =>
        /\ localStorage[CONFIG_KEY] = stringifyConfig(config)
        /\ ReadBackData(localStorage) = data

----------------------------------------------------------------------------
(* Custom tasks of a day ("today is different") *)

MaxCustom == 2

IsSpace(c) == c \in {" ", "\t"}

RECURSIVE trimStart(_)
trimStart(text) ==
    IF text # << >> /\ IsSpace(Head(text)) THEN trimStart(Tail(text)) ELSE text

RECURSIVE trimEnd(_)
trimEnd(text) ==
    IF text # << >> /\ IsSpace(text[Len(text)])
    THEN trimEnd(SubSeq(text, 1, Len(text) - 1))
    ELSE text

\* String.prototype.trim
trim(text) == trimEnd(trimStart(text))

\* where Array.prototype.splice(index, 1) starts, as a 0-based position
spliceStart(list, index) ==
    IF index < 0
    THEN (IF Len(list) + index > 0 THEN Len(list) + index ELSE 0)
    ELSE (IF index < Len(list) THEN index ELSE Len(list))

\* the array after list.splice(index, 1)
splice(list, index) ==
    LET start == spliceStart(list, index)
        deleteCount == IF Len(list) - start < 1 THEN Len(list) - start ELSE 1
    IN SubSeq(list, 1, start) \o SubSeq(list, start + deleteCount + 1, Len(list))

\* getMemberData(memberId).customTasks || []
customTasksOf(memberId) == getMemberData(memberId).customTasks

CustomRecord(op, memberId, input) ==
    [ op |-> op, memberId |-> memberId, input |-> input, key |-> dateKey,
      before |-> customTasksOf(memberId) ]

\* a value of addingCustomTask (string | null) that is a member id
FieldOf(memberId) == [kind |-> "string", value |-> memberId]

\* the "+" button of a member's custom list
openCustomField(memberId) ==
    /\ isLoaded
    /\ addingCustomTask' = FieldOf(memberId)
    /\ last' = [op |-> "setAddingCustomTask"]
    /\ pair' = NoPair
    /\ UNCHANGED <<currentDate, data, config, isLoaded, editingTask,
                   localStorage, settings, newCustomTaskText, summaryState,
                   views, gestureState>>

\* onChange of the custom-task field
typeCustomText(text) ==
    /\ addingCustomTask # Null
    /\ newCustomTaskText' = text
    /\ last' = [op |-> "setNewCustomTaskText"]
    /\ pair' = NoPair
    /\ UNCHANGED <<currentDate, data, config, isLoaded, editingTask,
                   localStorage, settings, addingCustomTask, summaryState,
                   views, gestureState>>

\* handleAddCustomTask that appends the text as typed
addedTextUntrimmed(text) == text

\* the text handleAddCustomTask appends
addedText(text) == trim(text)

handleAddCustomTask(memberId) ==
    /\ isLoaded
    /\ addingCustomTask = FieldOf(memberId)
    /\ Len(customTasksOf(memberId)) < MaxCustom
    /\ last' = CustomRecord("handleAddCustomTask", memberId, newCustomTaskText)
    /\ pair' = NoPair
    /\ IF trim(newCustomTaskText) = NoText
       THEN UNCHANGED <<data, localStorage, customField>>
       ELSE /\ data' = updateMemberData(memberId,
                  [customTasks |->
                      Append(customTasksOf(memberId),
                             addedText(newCustomTaskText))])
            /\ localStorage' = persistData(localStorage, data')
            /\ newCustomTaskText' = NoText
            /\ addingCustomTask' = Null
    /\ UNCHANGED <<currentDate, config, isLoaded, editingTask, settings,
                   summaryState,
                   views, gestureState>>

handleRemoveCustomTask(memberId, index) ==
    /\ isLoaded
    /\ data' = updateMemberData(memberId,
                  [customTasks |-> splice(customTasksOf(memberId), index)])
    /\ localStorage' = persistData(localStorage, data')
    /\ last' = CustomRecord("handleRemoveCustomTask", memberId, index)
    /\ pair' = NoPair
    /\ UNCHANGED <<currentDate, config, isLoaded, editingTask, settings,
                   panels>>

CustomMembers == { "me", "child3" }

TypedTexts == { <<" ">>, <<" ", "a", " ">>, <<"b">> }

\* positions handed to handleRemoveCustomTask
Indices == -1 .. MaxCustom

plusButton == \E memberId \in CustomMembers : openCustomField(memberId)

typeIntoCustomField == \E text \in TypedTexts : typeCustomText(text)

addCustomTask == \E memberId \in CustomMembers : handleAddCustomTask(memberId)

removeCustomTask ==
    \E memberId \in CustomMembers, index \in Indices :
        handleRemoveCustomTask(memberId, index)

NextCustom ==
    \/ load
    \/ plusButton
    \/ typeIntoCustomField
    \/ addCustomTask
    \/ removeCustomTask

SpecCustom == Init /\ [][NextCustom]_vars

----------------------------------------------------------------------------
(* Properties of the custom lists *)

\* new differs from old at most in the record of one member on one day
OtherLogsSame(old, new, key, memberId) ==
    /\ DOMAIN new = DOMAIN old \cup {key}
    /\ \A k \in DOMAIN old \ {key} : new[k] = old[k]
    /\ DOMAIN new[key] =
           (IF Has(old, key) THEN DOMAIN old[key] ELSE {}) \cup {memberId}
    /\ Has(old, key) =>
           \A m \in DOMAIN old[key] \ {memberId} : new[key][m] = old[key][m]

\* C13: removing a custom task at a position outside the day's list (negative,
\* or at least its length) changes nothing in the data; at a position inside
\* the list it removes exactly that element, keeps the order of the others,
\* and leaves every other part of the data as it was.
C13_RemoveCustomTask ==
    [][ last'.op = "handleRemoveCustomTask" =>
          LET memberId == last'.memberId
              index == last'.input
              list == customTasksOf(memberId)
          IN
          IF index < 0 \/ index >= Len(list)
          THEN data' = data
          ELSE /\ data'[dateKey][memberId] =
                    [getMemberData(memberId) EXCEPT
                        !.customTasks = SubSeq(list, 1, index)
                                        \o SubSeq(list, index + 2, Len(list))]
               /\ OtherLogsSame(data, data', dateKey, memberId)
      ]_vars

\* C14: adding a custom task whose text is empty or only whitespace changes
\* neither the data nor the store; any other text is appended, trimmed, as the
\* last element of the day's list, the elements before it stay as they were,
\* and every other part of the data is as it was.
C14_AddCustomTask ==
    [][ last'.op = "handleAddCustomTask" =>
          LET memberId == last'.memberId
              list == customTasksOf(memberId)
              text == newCustomTaskText
          IN
          IF \A i \in 1 .. Len(text) : IsSpace(text[i])
          THEN data' = data /\ localStorage' = localStorage
          ELSE /\ data'[dateKey][memberId] =
                    [getMemberData(memberId) EXCEPT
                        !.customTasks = Append(list, trim(text))]
               /\ Len(trim(text)) > 0
               /\ ~IsSpace(Head(trim(text)))
               /\ ~IsSpace(trim(text)[Len(trim(text))])
               /\ OtherLogsSame(data, data', dateKey, memberId)
      ]_vars

C14_Witness ==
    /\ last.op = "handleAddCustomTask"
    /\ last.input = <<" ", "a", " ">>
    /\ last.before = << <<"b">> >>
    /\ customTasksOf(last.memberId) = << <<"b">>, <<"a">> >>
    /\ Has(data, "2024-05-01")

----------------------------------------------------------------------------
(* Properties of the roster *)

\* C15: deleting a member removes only that member's entry of the roster: the
\* other members, every task definition (the deleted member's too) and the
\* title stay in the configuration, the data in memory and the stored data
\* stay as they were, so every day's log of that id is still there to read;
\* a declined confirmation changes nothing.
C15_DeleteOnlyRoster ==
    [][ (\E id \in DOMAIN config.members : deleteMember(id)) =>
          /\ last'.op = "deleteMember"
          /\ Has(config.members, last'.id)
          /\ config'.members = IF last'.confirmed
                               THEN Delete(config.members, last'.id)
                               ELSE config.members
          /\ config'.tasks = config.tasks
          /\ config'.appTitle = config.appTitle
          /\ data' = data
          /\ localStorage'[STORAGE_KEY] = localStorage[STORAGE_KEY]
          /\ \A k \in DOMAIN data :
               Has(data[k], last'.id) =>
                   TaskStateOf(data', k, last'.id, "bus")
                       = TaskStateOf(data, k, last'.id, "bus")
      ]_vars

C15_Witness ==
    /\ last.op = "deleteMember"
    /\ last.confirmed
    /\ last.id = "child3"
    /\ ~Has(config.members, "child3")
    /\ Has(config.tasks, "child3")
    /\ Has(data, "2024-05-01")
    /\ Has(data["2024-05-01"], "child3")
    /\ TaskStateOf(data, "2024-05-01", "child3", "bus").completed

\* C16: every addNewMember step adds exactly one member to the roster, under
\* an id that the configuration did not use before (neither in the roster nor
\* in the task definitions), with the starter task list, and leaves every
\* existing member record and task list as it was.
C16_FreshMember ==
    [][ addNewMember =>
          LET newIds == DOMAIN config'.members \ DOMAIN config.members IN
          /\ Cardinality(newIds) = 1
          /\ \A id \in newIds :
               /\ ~Has(config.tasks, id)
               /\ config'.members[id].id = id
               /\ config'.tasks[id] = StarterTasks
          /\ \A id \in DOMAIN config.members :
               config'.members[id] = config.members[id]
          /\ \A id \in DOMAIN config.tasks :
               config'.tasks[id] = config.tasks[id]
      ]_vars

----------------------------------------------------------------------------
(* Properties of the details editor *)

\* C17: saving the editor writes the typed details into the log of one task of
\* one member on the selected day; that log's `completed` is what it read as
\* before (FALSE when there was no entry), the entries of the member's other
\* tasks, the custom list and the mood are as they were, and so are the
\* records of every other member and every other day.
C17_DetailsOnly ==
    [][ saveTaskEdit =>
          LET memberId == editingTask.memberId
              id == editingTask.id
              old == getMemberData(memberId)
              new == data'[dateKey][memberId]
          IN
          /\ new.fixedTasks[id].details = editingTask.details
          /\ new.fixedTasks[id].completed =
                 (IF ~Has(old.fixedTasks, id) THEN FALSE
                  ELSE IF old.fixedTasks[id].type = "boolean"
                       THEN old.fixedTasks[id].value
                       ELSE old.fixedTasks[id].completed)
          /\ DOMAIN new.fixedTasks = DOMAIN old.fixedTasks \cup {id}
          /\ \A t \in DOMAIN old.fixedTasks \ {id} :
                 new.fixedTasks[t] = old.fixedTasks[t]
          /\ new.customTasks = old.customTasks
          /\ new.mood = old.mood
          /\ OtherLogsSame(data, data', dateKey, memberId)
      ]_vars

C17_Witness ==
    /\ last.op = "saveTaskEdit"
    /\ last.raw = "boolean"
    /\ last.before.completed
    /\ last.key = "2024-05-01"
    /\ LogNow(last).completed
    /\ LogNow(last).details = "note"
    /\ Has(data, "2024-05-02")

----------------------------------------------------------------------------
(* Start-up over a store that holds text JSON.parse rejects *)

CorruptStores ==
    { (STORAGE_KEY :> GarbageText) @@ (CONFIG_KEY :> NoItem),
      (STORAGE_KEY :> GarbageText)
          @@ (CONFIG_KEY :> stringifyConfig(StoredConfig)),
      (STORAGE_KEY :> stringifyData(LegacyData)) @@ (CONFIG_KEY :> GarbageText),
      (STORAGE_KEY :> GarbageText) @@ (CONFIG_KEY :> GarbageText) }

InitStartup ==
    /\ Constructed
    /\ localStorage \in Stores \cup CorruptStores

NextStartup ==
    \/ load
    \/ tapRow
    \/ pickDate
    \/ removeMember

SpecStartup == InitStartup /\ [][NextStartup]_vars

\* C18: start-up over a corrupt blob completes: the structure whose blob is
\* corrupt keeps its initial value ({} for the data, the initial
\* configuration), the other blob is loaded as over an intact store, isLoaded
\* becomes TRUE, and from then on every write reaches the store.
C18_CorruptStartup ==
    [][ /\ load =>
            LET savedData == localStorage[STORAGE_KEY]
                savedConfig == localStorage[CONFIG_KEY]
            IN  /\ isLoaded'
                /\ savedData = GarbageText => data' = EmptyObject
                /\ savedConfig = GarbageText => config' = INITIAL_CONFIG
                /\ savedData.kind = "json" =>
                       data' = FromJSONData(savedData.value)
                /\ savedConfig.kind = "json" =>
                       config' = mergeConfig(INITIAL_CONFIG,
                                             FromJSONConfig(savedConfig.value))
        /\ isLoaded' =>
            /\ localStorage'[CONFIG_KEY] = stringifyConfig(config')
            /\ DOMAIN data' # {} =>
                   localStorage'[STORAGE_KEY] = stringifyData(data')
      ]_vars

C18_Witness ==
    /\ isLoaded
    /\ last.op = "load"
    /\ localStorage[STORAGE_KEY] = GarbageText
    /\ data = EmptyObject
    /\ config.appTitle = DefaultAppTitle
    /\ localStorage[CONFIG_KEY] = stringifyConfig(config)

----------------------------------------------------------------------------
(* The daily summary: handleGenerateSummary and generateDailySummary *)

\* typeof value === 'boolean' ? value : value.completed
isCompletedUnresolved(value) ==
    IF value.type = "boolean" THEN FALSE ELSE value.completed

isCompletedEntry(value) ==
    IF value.type = "boolean" THEN value.value ELSE value.completed

\* typeof value === 'object' ? value.details : ''
detailsOfEntry(value) == IF value.type = "object" THEN value.details ELSE ""

\* memberTasks.find(t => t.id === id)?.title || id
getTaskTitle(memberTasks, id) ==
    LET found == { i \in 1 .. Len(memberTasks) : memberTasks[i].id = id }
    IN  IF found = {} THEN id
        ELSE LET first == CHOOSE i \in found : \A j \in found : i <= j
             IN  IF Truthy(memberTasks[first].title)
                 THEN memberTasks[first].title
                 ELSE id

\* the entries of the line of completed tasks of one member (the text joins
\* them in the order of the keys of fixedTasks)
completedTasks(fixedTasks, memberTasks) ==
    { [ task |-> getTaskTitle(memberTasks, id),
        details |-> detailsOfEntry(fixedTasks[id]) ] :
      id \in { t \in DOMAIN fixedTasks : isCompletedEntry(fixedTasks[t]) } }

\* the part of the prompt that is built from the arguments
promptData(date, dayData, taskDefs, members) ==
    [ date |-> date,
      members |->
        [ k \in { m \in DOMAIN members :
                    members[m].visible /\ Has(dayData, members[m].id) } |->
            LET log == dayData[members[k].id]
                memberTasks == IF Has(taskDefs, members[k].id)
                               THEN taskDefs[members[k].id]
                               ELSE << >>
            IN  [ name |-> members[k].name,
                  completed |-> completedTasks(log.fixedTasks, memberTasks),
                  custom |-> log.customTasks,
                  mood |-> IF log.mood = "" THEN "not filled" ELSE log.mood ] ] ]

\* response.text of a request that succeeded with text
SummaryText(call) ==
    [ kind |-> "summary",
      prompt |-> promptData(call.date, call.dayData, call.taskDefs,
                            call.members) ]

\* summary || <fallback>
FallbackSummary == [kind |-> "cannot generate a summary"]

\* how an awaited call of generateDailySummary can end
Outcomes == { "text", "no text", "API key is missing", "request rejected" }

Failed(outcome) == outcome \in { "API key is missing", "request rejected" }

\* the "generate" button: handleGenerateSummary up to its await
pressGenerate ==
    /\ isLoaded
    /\ ~isGenerating
    /\ IF ~Has(data, dateKey) \/ DOMAIN data[dateKey] = {}
       THEN /\ last' = [op |-> "handleGenerateSummary", started |-> FALSE]
            /\ UNCHANGED <<isGenerating, request>>
       ELSE /\ isGenerating' = TRUE
            /\ request' = [ date |-> dateKey,
                            dayData |-> data[dateKey],
                            taskDefs |-> config.tasks,
                            members |-> config.members ]
            /\ last' = [op |-> "handleGenerateSummary", started |-> TRUE]
    /\ pair' = NoPair
    /\ UNCHANGED <<currentDate, data, config, isLoaded, editingTask,
                   localStorage, settings, customField, aiSummary,
                   showSummaryModal, views, gestureState>>

\* handleGenerateSummary whose catch leaves the flag set
summaryResponseStuck ==
    /\ request # Null
    /\ \E outcome \in Outcomes :
         /\ IF Failed(outcome)
            THEN UNCHANGED <<aiSummary, showSummaryModal>>
            ELSE /\ aiSummary' = IF outcome = "text"
                                 THEN SummaryText(request)
                                 ELSE FallbackSummary
                 /\ showSummaryModal' = TRUE
         /\ isGenerating' = Failed(outcome)
         /\ last' = [ op |-> "generateDailySummary", outcome |-> outcome,
                      date |-> request.date ]
    /\ request' = Null
    /\ pair' = NoPair
    /\ UNCHANGED <<currentDate, data, config, isLoaded, editingTask,
                   localStorage, settings, customField, views, gestureState>>

\* the awaited call ends: the rest of try, catch and finally
summaryResponse ==
    /\ request # Null
    /\ \E outcome \in Outcomes :
         /\ IF Failed(outcome)
            THEN UNCHANGED <<aiSummary, showSummaryModal>>
            ELSE /\ aiSummary' = IF outcome = "text"
                                 THEN SummaryText(request)
                                 ELSE FallbackSummary
                 /\ showSummaryModal' = TRUE
         /\ last' = [ op |-> "generateDailySummary", outcome |-> outcome,
                      date |-> request.date ]
    /\ isGenerating' = FALSE
    /\ request' = Null
    /\ pair' = NoPair
    /\ UNCHANGED <<currentDate, data, config, isLoaded, editingTask,
                   localStorage, settings, customField, views, gestureState>>

\* the X and the close button of the summary modal
closeSummaryModal ==
    /\ showSummaryModal
    /\ showSummaryModal' = FALSE
    /\ last' = [op |-> "setShowSummaryModal"]
    /\ pair' = NoPair
    /\ UNCHANGED <<currentDate, data, config, isLoaded, editingTask,
                   localStorage, settings, customField, isGenerating,
                   aiSummary, request, views, gestureState>>

\* the summary modal covers the page (fixed inset-0): while it is shown the
\* rows, the date controls and the generate button under it take no click
tapUncoveredRow == ~showSummaryModal /\ tapRow

pickUncoveredDate == ~showSummaryModal /\ pickDate

generateButton == ~showSummaryModal /\ pressGenerate

NextSummary ==
    \/ load
    \/ tapUncoveredRow
    \/ pickUncoveredDate
    \/ generateButton
    \/ summaryResponse
    \/ closeSummaryModal

SpecSummary == Init /\ [][NextSummary]_vars

----------------------------------------------------------------------------
(* Properties of the daily summary *)

\* C19: when an awaited summary request ends, in failure (missing API key,
\* rejected request) or in success, the data, the configuration and the store
\* are as they were, isGenerating is FALSE and no request is in flight; a
\* failure also leaves the shown summary as it was; and a request only ever
\* starts from a press of the generate button (no automatic retry).
C19_FailureHarmless ==
    [][ /\ summaryResponse =>
            /\ data' = data
            /\ config' = config
            /\ localStorage' = localStorage
            /\ ~isGenerating'
            /\ request' = Null
            /\ Failed(last'.outcome) =>
                   aiSummary' = aiSummary /\ showSummaryModal' = showSummaryModal
        /\ request' # Null /\ request' # request =>
            /\ last'.op = "handleGenerateSummary"
            /\ request = Null
      ]_vars

C19_Witness ==
    /\ last.op = "generateDailySummary"
    /\ Failed(last.outcome)
    /\ ~isGenerating
    /\ request = Null
    /\ aiSummary # Null
    /\ Has(data, last.date)

\* the day record with every fixed-task entry read as getTaskState reads it
NormalisedDay(key, dayData) ==
    [ m \in DOMAIN dayData |->
        [ dayData[m] EXCEPT !.fixedTasks =
            [ t \in DOMAIN dayData[m].fixedTasks |->
                TaskStateOf(key :> dayData, key, m, t) ] ] ]

\* C20 as stated: every fixed-task entry of the day record handed to the
\* summary generator is a structured task log.
C20_HandedNormalised ==
    request # Null =>
        \A m \in DOMAIN request.dayData :
            \A t \in DOMAIN request.dayData[m].fixedTasks :
                request.dayData[m].fixedTasks[t].type = "object"

\* C20: the day record handed to the summary generator is the whole record of
\* the selected day as it is stored, legacy booleans included; the generator
\* reads a legacy boolean b as {completed: b, details: ""}, so the prompt it
\* builds is the prompt of the normalised record.
C20_GeneratorResolves ==
    [][ pressGenerate /\ last'.started =>
          /\ request'.date = dateKey
          /\ request'.dayData = data[dateKey]
          /\ promptData(dateKey, data[dateKey], config.tasks, config.members)
               = promptData(dateKey, NormalisedDay(dateKey, data[dateKey]),
                            config.tasks, config.members)
      ]_vars

C20_Witness ==
    /\ request # Null
    /\ isGenerating
    /\ Has(request.dayData, "child3")
    /\ request.dayData["child3"].fixedTasks["bus"] = BoolEntry(TRUE)
    /\ SummaryText(request).prompt.members["child3"].completed
           = { [task |-> "bus puzzle", details |-> ""] }

----------------------------------------------------------------------------
(* The calendar in other timezones and at other hours *)

\* timezones of the browser: New York (winter), UTC, Taipei
Offsets == { -5, 0, 8 }

\* the hour of the day (UTC) at which the app is opened
OpeningHours == { 0, 3, 12, 21 }

InitCalendar ==
    /\ \E offset \in Offsets, hour \in OpeningHours : Mounted(offset, hour)
    /\ OpenedOn(DateOf(2024, 5, 2))
    /\ localStorage \in Stores

NextCalendar ==
    \/ load
    \/ tapRow
    \/ pickDate

SpecCalendar == InitCalendar /\ [][NextCalendar]_vars

\* C21: the day under whose key the selected day's record is read and written
\* is the day of the selected instant on the local calendar, at every hour and
\* in every timezone; after a click on the calendar cell labelled N that day
\* is N.
C21_LocalDayKey ==
    /\ currentDate = localDay(selectedTime, utcOffset)
    /\ last.op = "selectDate" => currentDate = last.cell
    /\ last.op = "toggleFixedTask" =>
           last.key = formatDate(localDay(selectedTime, utcOffset))

----------------------------------------------------------------------------
(* The subtitle of a member card: calculateAgeAndGrade *)

IsLeapYear(year) ==
    (year % 4 = 0 /\ year % 100 # 0) \/ year % 400 = 0

DaysInMonth(year, month) ==
    IF month = 2 THEN (IF IsLeapYear(year) THEN 29 ELSE 28)
    ELSE IF month \in {4, 6, 9, 11} THEN 30 ELSE 31

dayBefore(date) ==
    IF date.day > 1 THEN DateOf(date.year, date.month, date.day - 1)
    ELSE IF date.month > 1
         THEN DateOf(date.year, date.month - 1,
                     DaysInMonth(date.year, date.month - 1))
         ELSE DateOf(date.year - 1, 12, 31)

\* new Date('YYYY-MM-DD') is midnight UTC of that date; getFullYear, getMonth
\* and getDate read it on the local calendar
birthDateOf(text, offset) == IF offset < 0 THEN dayBefore(text) ELSE text

\* the % of JavaScript: the remainder has the sign of the dividend
jsRemainder(a, b) == IF a >= 0 THEN a % b ELSE 0 - ((0 - a) % b)

NoLabel == [band |-> "none"]

GradeLabel(band, n) == [band |-> band, n |-> n]

\* gradeStr of a gradeVal
gradeStrOf(gradeVal) ==
    IF gradeVal >= 13 THEN NoLabel
    ELSE IF gradeVal >= 10 THEN GradeLabel("senior secondary", gradeVal - 9)
    ELSE IF gradeVal >= 7 THEN GradeLabel("junior secondary", gradeVal - 6)
    ELSE IF gradeVal >= 1 THEN GradeLabel("primary", gradeVal)
    ELSE IF gradeVal = 0 THEN GradeLabel("preschool", 4)
    ELSE IF gradeVal = -1 THEN GradeLabel("preschool", 3)
    ELSE IF gradeVal = -2 THEN GradeLabel("preschool", 2)
    ELSE IF gradeVal = -3 THEN GradeLabel("preschool", 1)
    ELSE NoLabel

\* gradeVal of a birth date and a today, both as the getters give them
gradeValOf(birthDate, today) ==
    LET currentAcademicYear ==
            IF today.month - 1 < 8 THEN today.year - 1 ELSE today.year
        schoolBirthYear ==
            IF \/ birthDate.month - 1 > 8
               \/ (birthDate.month - 1 = 8 /\ birthDate.day >= 2)
            THEN birthDate.year + 1
            ELSE birthDate.year
    IN  currentAcademicYear - schoolBirthYear - 5

\* the text `${ageStr} ${gradeStr}`.trim(), as its parts; '' without birth date
calculateAgeAndGrade(text, today, offset) ==
    IF text = NoBirthDate THEN [shown |-> FALSE]
    ELSE
    LET birthDate == birthDateOf(text, offset)
        m0 == (today.month - birthDate.month)
              + 12 * (today.year - birthDate.year)
        m == IF today.day < birthDate.day THEN m0 - 1 ELSE m0
    IN  [ shown |-> TRUE,
          years |-> m \div 12,
          months |-> jsRemainder(m, 12),
          gradeVal |-> gradeValOf(birthDate, today),
          gradeStr |-> gradeStrOf(gradeValOf(birthDate, today)) ]

\* memberConfig.subtitle || calculateAgeAndGrade(memberConfig.birthDate)
displaySubtitle == calculateAgeAndGrade(birthDateStr, todayDate, utcOffset)

BirthYears == { 2005, 2009, 2012, 2017, 2018, 2019, 2020, 2021, 2022, 2025 }

BirthDates ==
    { DateOf(y, m, d) : y \in BirthYears, m \in {1, 9, 12}, d \in {1, 2, 15} }

Todays == { DateOf(2024, 8, 15), DateOf(2024, 9, 1), DateOf(2024, 9, 14) }

\* the birth date field of the member editor, saved
typeBirthDate ==
    /\ isLoaded
    /\ \E text \in BirthDates :
         /\ birthDateStr' = text
         /\ last' = [op |-> "setBirthDate"]
    /\ pair' = NoPair
    /\ UNCHANGED <<currentDate, data, config, isLoaded, editingTask,
                   localStorage, settings, customField, summaryState,
                   calendarState, todayDate, gestureState>>

InitAge ==
    /\ \E offset \in Offsets : Mounted(offset, 0)
    /\ todayDate \in Todays
    /\ birthDateStr = NoBirthDate
    /\ localStorage \in Stores

NextAge ==
    \/ load
    \/ typeBirthDate

SpecAge == InitAge /\ [][NextAge]_vars

\* months of age as the rule states them, from the birth date of the member
monthsOfAge(text, today) ==
    (today.year - text.year) * 12 + (today.month - text.month)
        - (IF today.day < text.day THEN 1 ELSE 0)

\* C22: for a member with a birth date, the months of age are
\* (today.year - birth.year) * 12 + (today.month - birth.month), less one if
\* today.day < birth.day; years is months div 12 and the remaining months are
\* months mod 12, so years * 12 + remMonths = months and 0 <= remMonths <= 11.
C22_AgeArithmetic ==
    birthDateStr # NoBirthDate =>
        LET months == monthsOfAge(birthDateStr, todayDate)
            shown == displaySubtitle
        IN  /\ shown.years = months \div 12
            /\ shown.months = months % 12
            /\ shown.years * 12 + shown.months = months
            /\ shown.months \in 0 .. 11

\* C23: for a member with a birth date, gradeVal is currentAcademicYear -
\* schoolBirthYear - 5, where schoolBirthYear is the birth year, plus one when
\* the birth date is on or after 2 September, and currentAcademicYear is this
\* year, less one before September; the label is none from 13 up, senior
\* secondary gradeVal-9 for 10..12, junior secondary gradeVal-6 for 7..9,
\* primary gradeVal for 1..6, the four preschool bands for 0, -1, -2, -3 and
\* none below; a child born before 2 September six years before a today in
\* September or later is in primary year 1.
C23_GradeLabel ==
    birthDateStr # NoBirthDate =>
        LET birth == birthDateStr
            today == todayDate
            shown == displaySubtitle
            currentAcademicYear ==
                IF today.month < 9 THEN today.year - 1 ELSE today.year
            schoolBirthYear ==
                IF birth.month > 9 \/ (birth.month = 9 /\ birth.day >= 2)
                THEN birth.year + 1
                ELSE birth.year
            gradeVal == currentAcademicYear - schoolBirthYear - 5
        IN  /\ shown.gradeVal = gradeVal
            /\ gradeVal >= 13 => shown.gradeStr = NoLabel
            /\ gradeVal \in 10 .. 12 =>
                   shown.gradeStr = [band |-> "senior secondary", n |-> gradeVal - 9]
            /\ gradeVal \in 7 .. 9 =>
                   shown.gradeStr = [band |-> "junior secondary", n |-> gradeVal - 6]
            /\ gradeVal \in 1 .. 6 =>
                   shown.gradeStr = [band |-> "primary", n |-> gradeVal]
            /\ gradeVal \in -3 .. 0 =>
                   shown.gradeStr = [band |-> "preschool", n |-> gradeVal + 4]
            /\ gradeVal < -3 => shown.gradeStr = NoLabel
            /\ ( /\ today.month >= 9
                 /\ birth.year = today.year - 6
                 /\ (birth.month < 9 \/ (birth.month = 9 /\ birth.day < 2)) )
               => shown.gradeStr = [band |-> "primary", n |-> 1]

----------------------------------------------------------------------------
(* One press on a task row: handleTouchStart, handleTouchMove, the timer,  *)
(* handleTouchEnd and handleClick                                          *)

\* if (moveX > 20 || moveY > 20)
MoveThreshold == 20

Abs(n) == IF n < 0 THEN 0 - n ELSE n

\* where a press begins, and where the pointer may go during it
StartPos == [x |-> 100, y |-> 100]

Positions ==
    { StartPos, [x |-> 120, y |-> 100], [x |-> 100, y |-> 79],
      [x |-> 130, y |-> 100] }

\* moveX > 20 || moveY > 20
beyondThreshold(from, to) ==
    Abs(to.x - from.x) > MoveThreshold \/ Abs(to.y - from.y) > MoveThreshold

\* handleClick that toggles after a long press too
clickTogglesAfterLongPress(longPressTriggered, scrolling) == ~scrolling

\* whether handleClick reaches toggleFixedTask
clickToggles(longPressTriggered, scrolling) ==
    ~longPressTriggered /\ ~scrolling

\* onTouchStart, onMouseDown of a row: handleTouchStart
pressDown ==
    \E row \in TouchedRows :
        /\ isLoaded
        /\ editingTask = Null
        /\ Rendered(row)
        /\ pointer.phase = "up"
        /\ isLongPressTriggeredRef' = FALSE
        /\ isScrollingRef' = FALSE
        /\ touchStartPosRef' = StartPos
        /\ longPressTimerRef' = [memberId |-> row[1], taskId |-> RowTask(row)]
        /\ pointer' = [phase |-> "down", row |-> row, at |-> StartPos]
        /\ press' = [ n |-> 1, elapsed |-> FALSE, moved |-> FALSE,
                      toggles |-> 0, opened |-> 0, done |-> FALSE ]
        /\ last' = [op |-> "handleTouchStart"]
        /\ pair' = NoPair
        /\ UNCHANGED <<customField, summaryState, views, currentDate, data,
                       config, isLoaded, editingTask, localStorage, settings>>

\* onTouchMove, onMouseMove while the pointer is down: handleTouchMove
pointerMove ==
    \E to \in Positions :
        /\ pointer.phase = "down"
        /\ to # pointer.at
        /\ pointer' = [pointer EXCEPT !.at = to]
        /\ press' = [press EXCEPT !.moved =
                        @ \/ (~press.elapsed /\ beyondThreshold(StartPos, to))]
        /\ IF touchStartPosRef # Null /\ beyondThreshold(touchStartPosRef, to)
           THEN /\ isScrollingRef' = TRUE
                /\ longPressTimerRef' = Null
                /\ touchStartPosRef' = Null
           ELSE UNCHANGED <<isScrollingRef, longPressTimerRef, touchStartPosRef>>
        /\ last' = [op |-> "handleTouchMove"]
        /\ pair' = NoPair
        /\ UNCHANGED <<customField, summaryState, views, currentDate, data,
                       config, isLoaded, editingTask, localStorage, settings,
                       isLongPressTriggeredRef>>

\* 600 ms have passed since the press began and the pointer is still down;
\* the callback of setTimeout runs unless the timer was cleared
longPressElapses ==
    /\ pointer.phase = "down"
    /\ ~press.elapsed
    /\ IF longPressTimerRef # Null
       THEN /\ isLongPressTriggeredRef' = TRUE
            /\ openEditor(longPressTimerRef.memberId, longPressTimerRef.taskId)
            /\ longPressTimerRef' = Null
            /\ press' = [press EXCEPT !.elapsed = TRUE, !.opened = @ + 1]
       ELSE /\ press' = [press EXCEPT !.elapsed = TRUE]
            /\ last' = [op |-> "600 ms"]
            /\ pair' = NoPair
            /\ UNCHANGED <<customField, summaryState, views, currentDate, data,
                           config, isLoaded, editingTask, localStorage,
                           settings, isLongPressTriggeredRef,
                           longPressTimerRef>>
    /\ UNCHANGED <<touchStartPosRef, isScrollingRef, pointer>>

\* onTouchEnd, onMouseUp: handleTouchEnd
pressUp ==
    /\ pointer.phase = "down"
    /\ longPressTimerRef' = Null
    /\ touchStartPosRef' = Null
    /\ pointer' = [pointer EXCEPT !.phase = "released"]
    /\ last' = [op |-> "handleTouchEnd"]
    /\ pair' = NoPair
    /\ UNCHANGED <<customField, summaryState, views, currentDate, data,
                   config, isLoaded, editingTask, localStorage, settings,
                   isLongPressTriggeredRef, isScrollingRef, press>>

\* the browser sends the click of the press to the row: handleClick
rowClick ==
    /\ pointer.phase = "released"
    /\ pointer' = PointerUp
    /\ LET memberId == pointer.row[1]
           taskId == RowTask(pointer.row)
       IN  IF clickToggles(isLongPressTriggeredRef, isScrollingRef)
           THEN /\ toggleFixedTask(memberId, taskId)
                /\ press' = [press EXCEPT !.toggles = @ + 1, !.done = TRUE]
                /\ UNCHANGED <<isLongPressTriggeredRef>>
           ELSE /\ isLongPressTriggeredRef' = FALSE
                /\ press' = [press EXCEPT !.done = TRUE]
                /\ last' = [op |-> "handleClick"]
                /\ pair' = NoPair
                /\ UNCHANGED <<customField, summaryState, views, currentDate,
                               data, config, isLoaded, editingTask,
                               localStorage, settings>>
    /\ UNCHANGED <<longPressTimerRef, touchStartPosRef, isScrollingRef>>

\* the browser sends no click for the press (the pointer scrolled, or the
\* press was long)
noClick ==
    /\ pointer.phase = "released"
    /\ press.moved \/ press.elapsed
    /\ pointer' = PointerUp
    /\ press' = [press EXCEPT !.done = TRUE]
    /\ last' = [op |-> "no click"]
    /\ pair' = NoPair
    /\ UNCHANGED <<customField, summaryState, views, currentDate, data, config,
                   isLoaded, editingTask, localStorage, settings,
                   longPressTimerRef, touchStartPosRef,
                   isLongPressTriggeredRef, isScrollingRef>>

NextGesture ==
    \/ load
    \/ pressDown
    \/ pointerMove
    \/ longPressElapses
    \/ pressUp
    \/ rowClick
    \/ noClick
    \/ closeEditor
    \/ pickDate

SpecGesture == Init /\ [][NextGesture]_vars

\* C24: for one press on a task row: released before the 600 ms have passed
\* and without a move beyond the threshold, it toggles exactly once and does
\* not open the editor; held for the 600 ms without such a move, it opens the
\* editor once and its click does not toggle; moved beyond the threshold
\* before the 600 ms have passed, it neither toggles nor opens the editor.
C24_OnePress ==
    press.n > 0 =>
        /\ press.done /\ ~press.elapsed /\ ~press.moved =>
               press.toggles = 1 /\ press.opened = 0
        /\ ~press.done /\ ~press.elapsed => press.toggles = 0 /\ press.opened = 0
        /\ press.elapsed /\ ~press.moved =>
               press.opened = 1 /\ press.toggles = 0
        /\ press.moved => press.toggles = 0 /\ press.opened = 0

C24_Witness ==
    /\ press.n > 0
    /\ press.done
    /\ press.elapsed
    /\ ~press.moved
    /\ press.opened = 1
    /\ press.toggles = 0
    /\ last.op = "handleClick"
    /\ editingTask # Null

---------------------------------------------------------------------------
(* Sessions: the page is closed and opened again.  Local storage, the      *)
(* clipboard, the clock and the browser's timezone outlive the page; the   *)
(* component's state and refs are constructed anew and the mount effect    *)
(* (load) runs again.                                                      *)

\* the page is closed and opened: the state after construction, before the
\* mount effect; `last` keeps the configuration the closed session had
reopen ==
    /\ isLoaded
    /\ currentDate' = Today
    /\ selectedTime' = 24 * Today
    /\ data' = EmptyObject
    /\ config' = INITIAL_CONFIG
    /\ isLoaded' = FALSE
    /\ editingTask' = Null
    /\ importCode' = EmptyText
    /\ importStatus' = "idle"
    /\ resetTimers' = 0
    /\ exported' = NoExport
    /\ addingCustomTask' = Null
    /\ newCustomTaskText' = NoText
    /\ isGenerating' = FALSE
    /\ aiSummary' = Null
    /\ showSummaryModal' = FALSE
    /\ request' = Null
    /\ longPressTimerRef' = Null
    /\ touchStartPosRef' = Null
    /\ isLongPressTriggeredRef' = FALSE
    /\ isScrollingRef' = FALSE
    /\ pointer' = PointerUp
    /\ press' = NoPress
    /\ last' = [op |-> "reopen", config |-> config]
    /\ pair' = NoPair
    /\ UNCHANGED <<localStorage, clipboard, now, utcOffset, todayDate,
                   birthDateStr>>

NextSessions ==
    \/ load
    \/ addNewMember
    \/ tick
    \/ removeAnyMember
    \/ reopen

SpecSessions == Init /\ [][NextSessions]_vars

\* the configuration that local storage holds, as JSON.parse reads it
StoredRoster(store) == FromJSONConfig(store[CONFIG_KEY].value)

\* C25: the load that follows a reopening reproduces the roster of the
\* session that was closed: the same members (a removed member, built-in or
\* not, stays absent) and the same task lists, and nothing that is not in
\* the stored configuration comes back from the initial defaults
C25_ReloadSameRoster ==
    [][ (last.op = "reopen" /\ load) =>
           /\ config'.members = last.config.members
           /\ config'.tasks = last.config.tasks
           /\ DOMAIN config'.members = DOMAIN StoredRoster(localStorage).members
           /\ DOMAIN config'.tasks = DOMAIN StoredRoster(localStorage).tasks ]_vars

---------------------------------------------------------------------------
(* The mood box, and a day on which every kind of daily write happens *)

\* onChange of a member's mood box
handleUpdateMood(memberId, mood) ==
    /\ isLoaded
    /\ data' = updateMemberData(memberId, [mood |-> mood])
    /\ localStorage' = persistData(localStorage, data')
    /\ last' = [ op |-> "handleUpdateMood", memberId |-> memberId,
                 input |-> mood, key |-> dateKey ]
    /\ pair' = NoPair
    /\ UNCHANGED <<currentDate, config, isLoaded, editingTask, settings,
                   panels>>

TypedMoods == { "", "happy" }

\* the member whose card is written on, and the days that are looked at
DailyMember == "me"

DailyDays == { 1, Today }

typeMood ==
    \E mood \in TypedMoods :
        /\ editingTask = Null
        /\ handleUpdateMood(DailyMember, mood)

plusButtonOfMember == openCustomField(DailyMember)

typeOneCustomText == typeCustomText(<<" ", "a", " ">>)

addCustomTaskOfMember == handleAddCustomTask(DailyMember)

removeFirstCustomTask == handleRemoveCustomTask(DailyMember, 0)

pickDailyDay == \E d \in DailyDays : selectDate(d)

NextDaily ==
    \/ load
    \/ tapRow
    \/ longPressRow
    \/ saveTaskEdit
    \/ plusButtonOfMember
    \/ typeOneCustomText
    \/ addCustomTaskOfMember
    \/ removeFirstCustomTask
    \/ typeMood
    \/ pickDailyDay

SpecDaily == Init /\ [][NextDaily]_vars

\* the handlers that write the daily log, with the field each of them sets
DailyWrites ==
    [ toggleFixedTask |-> "fixedTasks",
      saveTaskEdit |-> "fixedTasks",
      handleAddCustomTask |-> "customTasks",
      handleRemoveCustomTask |-> "customTasks",
      handleUpdateMood |-> "mood" ]

---------------------------------------------------------------------------
(* The summary and the selected date *)

\* C27: whenever the summary modal is shown with a generated text, the text
\* was generated from the record of the selected day: the date of its prompt
\* is the selected day-key, also when the date was changed while the request
\* was in flight.
C27_SummaryOfSelectedDate ==
    (showSummaryModal /\ aiSummary.kind = "summary") =>
        aiSummary.prompt.date = dateKey

---------------------------------------------------------------------------
(* The import status and its reset timer *)

\* C28: the reset timer of a successful import only ever moves the status
\* from 'success' to 'idle', and after a failed import the status stays
\* 'error' until the next import attempt.
C28_ImportStatus ==
    [][ /\ resetImportStatus => importStatus = "success"
        /\ importStatus = "error" =>
              (importStatus' = "error" \/ handleImport) ]_vars

---------------------------------------------------------------------------
(* Start-up: reading before writing *)

\* C29: local storage is written only once the load has completed, with the
\* text of the state after the load; the data entry is never written while
\* the data are empty; a stored blob that parses is read before anything is
\* written, so after the load the store still gives the stored data and every
\* stored member and task list, not the in-memory defaults.
C29_ReadBeforeWrite ==
    [][ /\ localStorage' # localStorage => isLoaded'
        /\ localStorage'[STORAGE_KEY] # localStorage[STORAGE_KEY] =>
              /\ DOMAIN data' # {}
              /\ localStorage'[STORAGE_KEY] = stringifyData(data')
        /\ localStorage'[CONFIG_KEY] # localStorage[CONFIG_KEY] =>
              localStorage'[CONFIG_KEY] = stringifyConfig(config')
        /\ load =>
              LET savedData == localStorage[STORAGE_KEY]
                  savedConfig == localStorage[CONFIG_KEY]
              IN  /\ Usable(savedData) =>
                        /\ data' = FromJSONData(savedData.value)
                        /\ ReadBackData(localStorage') = ReadBackData(localStorage)
                  /\ Usable(savedConfig) =>
                        LET stored == StoredRoster(localStorage)
                            kept == StoredRoster(localStorage')
                        IN  /\ \A m \in DOMAIN stored.members :
                                  /\ Has(kept.members, m)
                                  /\ kept.members[m] = stored.members[m]
                            /\ \A m \in DOMAIN stored.tasks :
                                  /\ Has(kept.tasks, m)
                                  /\ kept.tasks[m] = stored.tasks[m]
                            /\ Truthy(stored.appTitle) =>
                                  kept.appTitle = stored.appTitle
      ]_vars

\* the load over a store with both blobs intact has completed
C29_Witness ==
    /\ isLoaded
    /\ last.op = "load"
    /\ data = OlderData
    /\ ReadBackData(localStorage) = OlderData
    /\ config = mergeConfig(INITIAL_CONFIG, StoredConfig)
    /\ config # INITIAL_CONFIG
    /\ localStorage[CONFIG_KEY] = stringifyConfig(config)

---------------------------------------------------------------------------
(* Legacy booleans *)

\* where the data hold a bare boolean: <<day-key, member, task>>
BareBooleans(dat) ==
    UNION { UNION { { <<k, m, t>> : t \in { u \in DOMAIN dat[k][m].fixedTasks :
                                              dat[k][m].fixedTasks[u].type = "boolean" } }
                    : m \in DOMAIN dat[k] }
            : k \in DOMAIN dat }

\* C30: no write stores a bare boolean.  A toggle of an entry that was the
\* legacy boolean b stores a structured log with completed = ~b and details
\* ""; an edit stores one with completed = b and the details typed.  The bare
\* booleans in memory are those that were loaded, and the store never gains
\* one.
C30_NoBareBooleanWritten ==
    [][ /\ BareBooleans(data') \subseteq
               BareBooleans(data) \cup BareBooleans(ReadBackData(localStorage))
        /\ BareBooleans(ReadBackData(localStorage')) \subseteq
               BareBooleans(ReadBackData(localStorage))
        /\ \A row \in TouchedRows :
             LET memberId == row[1]
                 taskId == RowTask(row)
                 raw == getMemberData(memberId).fixedTasks
             IN  (/\ Rendered(row)
                  /\ Has(raw, taskId)
                  /\ raw[taskId].type = "boolean"
                  /\ data' # data) =>
                     LET b == raw[taskId].value
                         stored == data'[dateKey][memberId].fixedTasks[taskId]
                     IN  /\ stored.type = "object"
                         /\ toggleFixedTask(memberId, taskId) =>
                               stored.completed = ~b /\ stored.details = ""
                         /\ saveTaskEdit =>
                               /\ stored.completed = b
                               /\ stored.details = editingTask.details
      ]_vars

\* a legacy boolean was toggled into a structured log while another loaded
\* boolean is still in the data
C30_Witness ==
    /\ last.op = "toggleFixedTask"
    /\ last.raw = "boolean"
    /\ LET stored == data[last.key][last.memberId].fixedTasks[last.taskId]
       IN  /\ stored.type = "object"
           /\ stored.completed = ~last.before.completed
           /\ stored.details = ""
    /\ BareBooleans(data) # {}

====
